---- MODULE Spec2Model ----
(***************************************************************************)
(* Model of the coefficient-table parser (csv_avg_emissivity_to_dictionary *)
(* .py) and of the split-window driver (i.landsat.swlst.py).               *)
(*                                                                         *)
(* A Python str is a sequence of one-character strings, so that replace,   *)
(* split, strip and the numeric grammar work on characters.  A Python      *)
(* value is a record [type, int, str] (PyInt, PyStr, PyNone, PyFalse).     *)
(***************************************************************************)
EXTENDS Integers, Sequences, FiniteSets, TLC

VARIABLES
    pc,          \* position of the running call
    string,      \* replace_dot_comma_space: its argument
    canon,       \* replace_dot_comma_space: its return value
    value,       \* is_number: its argument
    number,      \* is_number: its return value
    expression,  \* replace_dummies: the mapcalc expression (argument string)
    t10,         \* replace_dummies: argument t10
    t11,         \* replace_dummies: argument t11
    bound,       \* replace_dummies: its return value
    csv,         \* csv_to_dictionary: its argument, the table text
    rows,        \* csv_to_dictionary: the data rows, after rows.pop(0)
    fields,      \* csv_to_dictionary: header fields
    dictionary,  \* csv_to_dictionary: key -> record
    i,           \* csv_to_dictionary: rows already mapped by map(transform_cwv, rows)
    err,         \* the exception that ended the call, "" when none
    swlst,       \* the SplitWindowLST object
    temps,       \* compute_lst: its arguments
    lst          \* compute_lst: its return value

canonVars == <<string, canon>>
numVars == <<value, number>>
bindVars == <<expression, t10, t11, bound>>
csvVars == <<csv, rows, fields, dictionary, i>>
lstVars == <<swlst, temps, lst>>

vars == <<pc, err, canonVars, numVars, bindVars, csvVars, lstVars>>

(***************************************************************************)
(* Python values                                                           *)
(***************************************************************************)
PyInt(n) == [type |-> "int", int |-> n, str |-> <<>>]
PyStr(s) == [type |-> "str", int |-> 0, str |-> s]
PyNone == [type |-> "NoneType", int |-> 0, str |-> <<>>]
PyFalse == [type |-> "bool", int |-> 0, str |-> <<>>]

\* the value a variable holds while its call is not the one running
Idle == PyNone

DigitChar(d) == <<"0", "1", "2", "3", "4", "5", "6", "7", "8", "9">>[d + 1]

RECURSIVE Decimal(_)
Decimal(n) ==
    IF n < 10 THEN <<DigitChar(n)>>
    ELSE Decimal(n \div 10) \o <<DigitChar(n % 10)>>

\* str(v)
Str(v) ==
    CASE v.type = "int" -> Decimal(v.int)
      [] v.type = "str" -> v.str
      [] v.type = "NoneType" -> <<"N", "o", "n", "e">>
      [] v.type = "bool" -> <<"F", "a", "l", "s", "e">>

(***************************************************************************)
(* str methods                                                             *)
(***************************************************************************)
StartsWith(s, p) == Len(s) >= Len(p) /\ SubSeq(s, 1, Len(p)) = p

\* p in s
Contains(s, p) ==
    \E n \in 1..(Len(s) - Len(p) + 1) : s[n] = p[1] /\ SubSeq(s, n, n + Len(p) - 1) = p

\* s.replace(old, new) where old occurs: leftmost non-overlapping occurrences
RECURSIVE ReplaceEach(_, _, _)
ReplaceEach(s, old, new) ==
    IF Len(s) < Len(old) THEN s
    ELSE IF StartsWith(s, old)
         THEN new \o ReplaceEach(SubSeq(s, Len(old) + 1, Len(s)), old, new)
         ELSE <<s[1]>> \o ReplaceEach(Tail(s), old, new)

\* s.replace(old, new), old not empty
Replace(s, old, new) == IF Contains(s, old) THEN ReplaceEach(s, old, new) ELSE s

\* reduce(lambda alpha, omega: alpha.replace(*omega), reps, s)
RECURSIVE Reduce(_, _)
Reduce(reps, s) ==
    IF reps = <<>> THEN s
    ELSE Reduce(Tail(reps), Replace(s, reps[1][1], reps[1][2]))

\* s.split(sep), sep one character: the pieces between the occurrences of sep
Split(s, sep) ==
    LET seps == {n \in 1..Len(s) : s[n] = sep}
        k == Cardinality(seps)
        cut == [j \in 0..(k + 1) |->
                   IF j = 0 THEN 0
                   ELSE IF j = k + 1 THEN Len(s) + 1
                   ELSE CHOOSE n \in seps : Cardinality({m \in seps : m <= n}) = j]
    IN  [j \in 1..(k + 1) |-> SubSeq(s, cut[j - 1] + 1, cut[j] - 1)]

\* sep.join(parts)
RECURSIVE Join(_, _)
Join(parts, sep) ==
    IF parts = <<>> THEN <<>>
    ELSE IF Len(parts) = 1 THEN parts[1]
         ELSE parts[1] \o <<sep>> \o Join(Tail(parts), sep)

(***************************************************************************)
(* replace_dot_comma_space                                                 *)
(***************************************************************************)
replacements_swapped ==
    << <<<<".">>, <<>> >>, <<<<",">>, <<"_">> >>, <<<<",", " ">>, <<"_">> >>,
       <<<<" ">>, <<"_">> >>, <<<<"(">>, <<>> >>, <<<<")">>, <<>> >>,
       <<<<"/">>, <<"_">> >> >>

replacements_respace ==
    << <<<<".">>, <<>> >>, <<<<",", " ">>, <<"_">> >>, <<<<",">>, <<"_">> >>,
       <<<<" ">>, <<"_">> >>, <<<<"(">>, <<>> >>, <<<<")">>, <<>> >>,
       <<<<"/">>, <<" ">> >> >>

replacements ==
    << <<<<".">>, <<>> >>, <<<<",", " ">>, <<"_">> >>, <<<<",">>, <<"_">> >>,
       <<<<" ">>, <<"_">> >>, <<<<"(">>, <<>> >>, <<<<")">>, <<>> >>,
       <<<<"/">>, <<"_">> >> >>

replace_dot_comma_space(s) == Reduce(replacements, s)

(***************************************************************************)
(* is_number.  float() and complex() are the built-ins, restricted to the  *)
(* characters the tables of this model are written in: digits, ".", "j",   *)
(* " ", "(", ")" and characters that occur in no number (no sign, no       *)
(* exponent, none of the letters of inf and nan).                          *)
(***************************************************************************)
Digits == {"0", "1", "2", "3", "4", "5", "6", "7", "8", "9"}

RECURSIVE LStrip(_)
LStrip(s) == IF s # <<>> /\ s[1] = " " THEN LStrip(Tail(s)) ELSE s

RECURSIVE RStrip(_)
RStrip(s) ==
    IF s # <<>> /\ s[Len(s)] = " " THEN RStrip(SubSeq(s, 1, Len(s) - 1)) ELSE s

\* s.strip()
Strip(s) == RStrip(LStrip(s))

\* digits with at most one ".", and at least one digit: 1  1.  .1  1.1
FloatLiteral(s) ==
    /\ \A n \in 1..Len(s) : s[n] \in Digits \cup {"."}
    /\ Cardinality({n \in 1..Len(s) : s[n] = "."}) <= 1
    /\ \E n \in 1..Len(s) : s[n] \in Digits

\* <float>, <float>j or j
ComplexLiteral(s) ==
    \/ FloatLiteral(s)
    \/ s = <<"j">>
    \/ Len(s) >= 2 /\ s[Len(s)] = "j" /\ FloatLiteral(SubSeq(s, 1, Len(s) - 1))

\* the exception float(v) raises, "" when it returns
float(v) ==
    CASE v.type = "int" -> ""
      [] v.type = "str" -> IF FloatLiteral(Strip(v.str)) THEN "" ELSE "ValueError"
      [] OTHER -> "TypeError"

\* the exception complex(v) raises, "" when it returns
complex(v) ==
    CASE v.type = "int" -> ""
      [] v.type = "str" ->
            LET t == Strip(v.str)
                inner == IF t # <<>> /\ t[1] = "("
                         THEN IF Len(t) >= 2 /\ t[Len(t)] = ")"
                              THEN Strip(SubSeq(t, 2, Len(t) - 1))
                              ELSE <<>>
                         ELSE t
            IN  IF ComplexLiteral(inner) THEN "" ELSE "ValueError"
      [] OTHER -> "TypeError"

Return(v) == [ret |-> v, exc |-> ""]
Raise(e) == [ret |-> PyNone, exc |-> e]

\* is_number with "return False" lost: every text falls through to "return value"
is_number_fallthrough(v) ==
    IF float(v) = "ValueError"
    THEN IF complex(v) \in {"", "ValueError"} THEN Return(v) ELSE Raise(complex(v))
    ELSE IF float(v) = "" THEN Return(v) ELSE Raise(float(v))

is_number(v) ==
    IF float(v) = "ValueError"
    THEN IF complex(v) = "ValueError" THEN Return(PyFalse)
         ELSE IF complex(v) = "" THEN Return(v) ELSE Raise(complex(v))
    ELSE IF float(v) = "" THEN Return(v) ELSE Raise(float(v))

(***************************************************************************)
(* collections.namedtuple(typename, field_names): the exception it raises, *)
(* "" when it returns the class                                            *)
(***************************************************************************)
Letters ==
    {"a", "b", "c", "d", "e", "f", "g", "h", "i", "j", "k", "l", "m", "n", "o", "p",
     "q", "r", "s", "t", "u", "v", "w", "x", "y", "z", "A", "B", "C", "D", "E", "F",
     "G", "H", "I", "J", "K", "L", "M", "N", "O", "P", "Q", "R", "S", "T", "U", "V",
     "W", "X", "Y", "Z"}

Keywords ==
    {<<"a", "n", "d">>, <<"a", "s">>, <<"a", "s", "s", "e", "r", "t">>,
     <<"b", "r", "e", "a", "k">>, <<"c", "l", "a", "s", "s">>,
     <<"c", "o", "n", "t", "i", "n", "u", "e">>, <<"d", "e", "f">>,
     <<"d", "e", "l">>, <<"e", "l", "i", "f">>, <<"e", "l", "s", "e">>,
     <<"e", "x", "c", "e", "p", "t">>, <<"e", "x", "e", "c">>,
     <<"f", "i", "n", "a", "l", "l", "y">>, <<"f", "o", "r">>,
     <<"f", "r", "o", "m">>, <<"g", "l", "o", "b", "a", "l">>, <<"i", "f">>,
     <<"i", "m", "p", "o", "r", "t">>, <<"i", "n">>, <<"i", "s">>,
     <<"l", "a", "m", "b", "d", "a">>, <<"n", "o", "t">>, <<"o", "r">>,
     <<"p", "a", "s", "s">>, <<"p", "r", "i", "n", "t">>,
     <<"r", "a", "i", "s", "e">>, <<"r", "e", "t", "u", "r", "n">>,
     <<"t", "r", "y">>, <<"w", "h", "i", "l", "e">>, <<"w", "i", "t", "h">>,
     <<"y", "i", "e", "l", "d">>}

\* c.isalnum() or c == '_'
NameChars == Letters \cup Digits \cup {"_"}

\* the checks of one name, in the order namedtuple makes them
NameCheck(name) ==
    IF \E n \in 1..Len(name) : name[n] \notin NameChars
    THEN "ValueError"
    ELSE IF name \in Keywords THEN "ValueError"
    ELSE IF name = <<>> THEN "IndexError"
    ELSE IF name[1] \in Digits THEN "ValueError"
    ELSE ""

namedtuple(typename, field_names) ==
    LET names == <<typename>> \o field_names
        bad == {n \in 1..Len(names) : NameCheck(names[n]) # ""}
    IN  IF bad # {}
        THEN NameCheck(names[CHOOSE n \in bad : \A m \in bad : n <= m])
        ELSE IF \E n \in 1..Len(field_names) :
                    \/ field_names[n][1] = "_"
                    \/ \E m \in 1..(n - 1) : field_names[m] = field_names[n]
             THEN "ValueError"
             ELSE ""

(***************************************************************************)
(* csv_to_dictionary                                                       *)
(***************************************************************************)
\* transform_cwv reads fields[0..9] and elements[0..9]
NCwv == 10

\* the attributes transform_cwv sets
Name_subrange == <<"s", "u", "b", "r", "a", "n", "g", "e">>
Name_b(k) == <<"b", DigitChar(k)>>
Name_rmse == <<"r", "m", "s", "e">>

\* dictionary[key] = cwv: the last row of a key wins
Feed_overwrite(d, key, cwv) ==
    [k \in DOMAIN d \cup {key} |-> IF k = key THEN cwv ELSE d[k]]

\* dictionary[key] = dictionary.get(key, cwv)
Feed(d, key, cwv) ==
    [k \in DOMAIN d \cup {key} |-> IF k \in DOMAIN d THEN d[k] ELSE cwv]

\* the namedtuple class of a row, with the attributes transform_cwv sets on it
Cwv(key, names, elements) ==
    [typename |-> key,
     field_names |-> names,
     subrange |-> is_number(PyStr(elements[1])).ret,
     b0 |-> is_number(PyStr(elements[2])).ret,
     b1 |-> is_number(PyStr(elements[3])).ret,
     b2 |-> is_number(PyStr(elements[4])).ret,
     b3 |-> is_number(PyStr(elements[5])).ret,
     b4 |-> is_number(PyStr(elements[6])).ret,
     b5 |-> is_number(PyStr(elements[7])).ret,
     b6 |-> is_number(PyStr(elements[8])).ret,
     b7 |-> is_number(PyStr(elements[9])).ret,
     rmse |-> is_number(PyStr(elements[10])).ret]

\* transform_cwv(row): the dictionary it leaves, or the exception it raises
transform_cwv(d, flds, row) ==
    LET elements == Split(row, "|")
        key == replace_dot_comma_space(elements[1])
    IN  IF Len(flds) < NCwv THEN Raise("IndexError")
        ELSE LET names == [n \in 1..NCwv |-> replace_dot_comma_space(flds[n])]
                 nt == namedtuple(key, names)
             IN  IF nt # "" THEN Raise(nt)
                 ELSE IF Len(elements) < NCwv THEN Raise("IndexError")
                 ELSE Return(Feed(d, key, Cwv(key, names, elements)))

PyProperty == [type |-> "property", int |-> 0, str |-> <<>>]

\* getattr(cwv, name): an attribute transform_cwv set, or else the property
\* namedtuple made for a field
getattr(cwv, name) ==
    CASE name = Name_subrange -> Return(cwv.subrange)
      [] name = Name_b(0) -> Return(cwv.b0)
      [] name = Name_b(1) -> Return(cwv.b1)
      [] name = Name_b(2) -> Return(cwv.b2)
      [] name = Name_b(3) -> Return(cwv.b3)
      [] name = Name_b(4) -> Return(cwv.b4)
      [] name = Name_b(5) -> Return(cwv.b5)
      [] name = Name_b(6) -> Return(cwv.b6)
      [] name = Name_b(7) -> Return(cwv.b7)
      [] name = Name_rmse -> Return(cwv.rmse)
      [] OTHER -> IF \E n \in 1..Len(cwv.field_names) : cwv.field_names[n] = name
                  THEN Return(PyProperty)
                  ELSE Raise("AttributeError")

(***************************************************************************)
(* replace_dummies                                                         *)
(***************************************************************************)
Input_T10 == <<"I", "n", "p", "u", "t", "_", "T", "1", "0">>
Input_T11 == <<"I", "n", "p", "u", "t", "_", "T", "1", "1">>

replace_dummies(s, a, b) ==
    Reduce(<< <<Input_T10, Str(a)>>, <<Input_T11, Str(b)>> >>, s)

(***************************************************************************)
(* SplitWindowLST (module split_window_lst).  Numbers are exact fractions  *)
(* [n, d] in lowest terms, d > 0.                                          *)
(***************************************************************************)
Abs(x) == IF x < 0 THEN -x ELSE x

RECURSIVE Gcd(_, _)
Gcd(a, b) == IF b = 0 THEN a ELSE Gcd(b, a % b)

Q(n, d) ==
    LET g == Gcd(Abs(n), Abs(d))
        sign == IF d < 0 THEN -1 ELSE 1
    IN  [n |-> sign * (n \div g), d |-> sign * (d \div g)]

QInt(k) == [n |-> k, d |-> 1]
QAdd(x, y) ==
    LET g == Gcd(x.d, y.d)
    IN  Q(x.n * (y.d \div g) + y.n * (x.d \div g), (x.d \div g) * y.d)
QNeg(x) == [n |-> -x.n, d |-> x.d]
QSub(x, y) == QAdd(x, QNeg(y))
QMul(x, y) ==
    LET a == Q(x.n, y.d)
        b == Q(y.n, x.d)
    IN  Q(a.n * b.n, a.d * b.d)
\* y not zero
QDiv(x, y) == QMul(x, Q(y.d, y.n))
QHalf(x) == QMul(x, Q(1, 2))

\* the object: the emissivities, their average and difference, the coefficients
SplitWindowLST(e10, e11, cwv) ==
    [emissivity_t10 |-> e10,
     emissivity_t11 |-> e11,
     average_emissivity |-> QHalf(QAdd(e10, e11)),
     delta_emissivity |-> QSub(e10, e11),
     cwv_coefficients |-> cwv]

\* b0 + (b1 + b2*(1-e)/e + b3*de/e^2)*(ti+tj)/2
\*    + (b4 + b5*(1-e)/e + b6*de/e^2)*(ti-tj)/2 + b7*(ti-tj)^2
SplitWindow(o, ti, tj) ==
    LET e == o.average_emissivity
        de == o.delta_emissivity
        b == o.cwv_coefficients
        r == QDiv(QSub(QInt(1), e), e)
        s == QDiv(de, QMul(e, e))
        sum == QAdd(ti, tj)
        dif == QSub(ti, tj)
        term(x, y, z) == QAdd(x, QAdd(QMul(y, r), QMul(z, s)))
    IN  QAdd(QAdd(b.b0, QMul(term(b.b1, b.b2, b.b3), QHalf(sum))),
             QAdd(QMul(term(b.b4, b.b5, b.b6), QHalf(dif)), QMul(b.b7, QMul(dif, dif))))

\* compute_lst that only guards the division: fails when the average is 0
compute_lst_average_only(o, ti, tj) ==
    IF o.average_emissivity.n = 0 THEN Raise("DomainError")
    ELSE Return(SplitWindow(o, ti, tj))

\* the emissivities are validated at first use, then the formula
compute_lst(o, ti, tj) ==
    IF o.emissivity_t10.n <= 0 \/ o.emissivity_t11.n <= 0 THEN Raise("DomainError")
    ELSE Return(SplitWindow(o, ti, tj))

(***************************************************************************)
(* Inputs                                                                  *)
(***************************************************************************)
MaxKeyLen == 3

KeyChars == {"a", ".", ",", " ", "(", ")", "/", "_"}

RECURSIVE StringsUpTo(_, _)
StringsUpTo(chars, n) ==
    IF n = 0 THEN {<<>>}
    ELSE LET shorter == StringsUpTo(chars, n - 1)
         IN  shorter \cup {<<c>> \o s : c \in chars, s \in {t \in shorter : Len(t) = n - 1}}

BarrenLand == <<"B", "a", "r", "r", "e", "n", " ", "L", "a", "n", "d">>
Barren_Land == <<"B", "a", "r", "r", "e", "n", "_", "L", "a", "n", "d">>
SnowAndIce == <<"S", "n", "o", "w", " ", "a", "n", "d", " ", "i", "c", "e">>
Snow_and_ice == <<"S", "n", "o", "w", "_", "a", "n", "d", "_", "i", "c", "e">>

MaxNumLen == 3

NumChars == {"1", ".", "j", "x", " ", "(", ")"}

\* texts of table cells, and the integers test_using_file draws
NumberInputs ==
    {PyStr(s) : s \in StringsUpTo(NumChars, MaxNumLen)} \cup {PyInt(n) : n \in 1..10}

MaxPieces == 3

\* random_digital_numbers: random.randint(1, 2**12)
MaxDN == 4096

ExpressionPieces == {Input_T10, Input_T11, <<"+">>, <<"2">>}

RECURSIVE Expressions(_)
Expressions(n) ==
    IF n = 0 THEN {<<>>}
    ELSE {p \o e : p \in ExpressionPieces, e \in Expressions(n - 1)} \cup Expressions(n - 1)

\* digital numbers (main), names of input maps (the docstring), and None
BoundValues ==
    {PyInt(n) : n \in {1, 42, MaxDN}}
        \cup {PyStr(m) : m \in {<<"B", "1", "0">>, <<"x">>, Input_T10, Input_T11}}
        \cup {PyNone}

MaxRows == 2

Name_b0_b7 == [k \in 1..8 |-> Name_b(k - 1)]

\* CWV|subrange|b0|...|b7|rmse: the ten names transform_cwv sets, as the fields
HeaderShifted == <<<<"C", "W", "V">>, Name_subrange>> \o Name_b0_b7 \o <<Name_rmse>>
\* CWV|b0|...|b7|rmse|note: each of b0..rmse in the column transform_cwv reads it from
HeaderAligned == <<<<"C", "W", "V">>>> \o Name_b0_b7 \o <<Name_rmse, <<"n", "o", "t", "e">>>>
\* CWV|b0|...|b7|rmse: nine fields
HeaderNine == <<<<"C", "W", "V">>>> \o Name_b0_b7 \o <<Name_rmse>>
\* CWV|b0|b0|b1|...|b7|rmse: a field name twice
HeaderTwice == <<<<"C", "W", "V">>, Name_b(0)>> \o Name_b0_b7 \o <<Name_rmse>>

\* the first two lines of the module's own table
EmissivityCsv ==
    <<"E", "m", "i", "s", "s", "i", "v", "i", "t", "y", " ", "C", "l", "a",
      "s", "s", "|", "T", "I", "R", "S", "1", "0", "|", "T", "I", "R", "S",
      "1", "1", "\n", "C", "r", "o", "p", "l", "a", "n", "d", "|", "0", ".",
      "9", "7", "1", "|", "0", ".", "9", "6", "8">>

CsvKeys == {<<"a", " ", "b">>, <<"a", "_", "b">>, <<"a", "/", "b">>, <<"a", ".", "b">>}

\* the cell of column c in the row at position p: a float, a text or a complex
\* number in turn, no two rows alike in any column
Cell(c, p) ==
    CASE (c + p) % 3 = 0 -> <<DigitChar(p), ".", DigitChar(c % 10)>>
      [] (c + p) % 3 = 1 -> <<"x", DigitChar(p), DigitChar(c % 10)>>
      [] (c + p) % 3 = 2 -> <<DigitChar(p), DigitChar(c % 10), "j">>

\* a row of n elements, at position p of the table
Row(key, p, n) == <<key>> \o [c \in 1..(n - 1) |-> Cell(c, p)]

RowLens == {NCwv - 1, NCwv, NCwv + 1, NCwv + 2}

\* keys that give no type name: the empty name, a digit first, a keyword, a hyphen
OddKeys == {<<".">>, <<"1", "a">>, <<"i", "s">>, <<"a", "-">>}

\* the tables of at most n rows
RECURSIVE RowSeqs(_)
RowSeqs(n) ==
    IF n = 0 THEN {<<>>}
    ELSE {rs \o <<Row(k, n, l)>> :
              rs \in {t \in RowSeqs(n - 1) : Len(t) = n - 1}, k \in CsvKeys, l \in RowLens}
            \cup RowSeqs(n - 1)

\* the text csv_reader returns: '|' between elements, '\n' between rows
Table(header, rs) ==
    Join(<<Join(header, "|")>> \o [n \in 1..Len(rs) |-> Join(rs[n], "|")], "\n")

Tables ==
    {Table(h, rs) : h \in {HeaderShifted, HeaderAligned}, rs \in RowSeqs(MaxRows)}
        \cup {Table(h, rs) : h \in {HeaderNine, HeaderTwice}, rs \in RowSeqs(1)}
        \cup {Table(HeaderAligned, <<Row(k, 1, NCwv + 1)>>) : k \in OddKeys}
        \cup {Table(HeaderAligned, <<Row(BarrenLand, 1, NCwv + 1), Row(Barren_Land, 2, NCwv + 1)>>),
              Table(HeaderAligned, <<Row(Barren_Land, 1, NCwv + 1), Row(BarrenLand, 2, NCwv + 1)>>),
              EmissivityCsv, <<>>}

\* b0 of the degenerate records, in halves: 0, 1/2, ..., MaxB0/2
MaxB0 == 2

Coefficients(b0, b1, b2, b3, b4, b5, b6, b7) ==
    [b0 |-> b0, b1 |-> b1, b2 |-> b2, b3 |-> b3, b4 |-> b4, b5 |-> b5, b6 |-> b6,
     b7 |-> b7]

\* b1 = 1 and b2..b7 = 0
Degenerate(b0) ==
    Coefficients(b0, QInt(1), QInt(0), QInt(0), QInt(0), QInt(0), QInt(0), QInt(0))

DegenerateRecords == {Degenerate(Q(k, 2)) : k \in 0..MaxB0}

GeneralRecords ==
    {Coefficients(Q(-2, 1), Q(1, 1), Q(1, 5), Q(-1, 2), Q(4, 1), Q(3, 2), Q(-7, 1), Q(1, 4)),
     Coefficients(Q(1, 2), Q(1, 1), Q(1, 1), Q(0, 1), Q(0, 1), Q(0, 1), Q(1, 1), Q(0, 1)),
     Coefficients(Q(0, 1), Q(0, 1), Q(0, 1), Q(1, 1), Q(1, 1), Q(1, 1), Q(0, 1), Q(1, 1))}

\* Cropland|0.971|0.968
Cropland == <<Q(971, 1000), Q(968, 1000)>>

SimpleEmissivities == {Q(0, 1), Q(1, 4), Q(1, 2), Q(1, 1)}

\* what a model is built from: the table's pair with the degenerate records,
\* simple pairs with every record
ModelInputs ==
    {<<p, c>> : p \in {Cropland, <<Cropland[2], Cropland[1]>>}, c \in DegenerateRecords}
        \cup {<<p, c>> : p \in SimpleEmissivities \X SimpleEmissivities,
                         c \in DegenerateRecords \cup GeneralRecords}

\* brightness temperatures: the scenario's 300 and 299, and digital numbers
Temperatures == {QInt(1), QInt(299), QInt(300), QInt(MaxDN)}

RawKeys == StringsUpTo(KeyChars, MaxKeyLen) \cup {BarrenLand, Barren_Land, SnowAndIce, Snow_and_ice}

(***************************************************************************)
(* Specifications: each one runs one call, the other calls' variables idle *)
(***************************************************************************)
IdleCanon == string = Idle /\ canon = Idle
IdleNum == value = Idle /\ number = Idle
IdleBind == expression = Idle /\ t10 = Idle /\ t11 = Idle /\ bound = Idle
IdleCsv == csv = Idle /\ rows = Idle /\ fields = Idle /\ dictionary = Idle /\ i = 0
IdleLst == swlst = Idle /\ temps = Idle /\ lst = Idle

InitCanon ==
    /\ pc = "call" /\ err = ""
    /\ string \in RawKeys
    /\ canon = Idle
    /\ IdleNum /\ IdleBind /\ IdleCsv /\ IdleLst

Call_replace_dot_comma_space ==
    /\ pc = "call"
    /\ canon' = replace_dot_comma_space(string)
    /\ pc' = "done"
    /\ UNCHANGED <<string, err, numVars, bindVars, csvVars, lstVars>>

NextCanon == Call_replace_dot_comma_space

SpecCanon == InitCanon /\ [][NextCanon]_vars

(***************************************************************************)
(* A call of is_number                                                     *)
(***************************************************************************)
InitNum ==
    /\ pc = "call" /\ err = ""
    /\ value \in NumberInputs
    /\ number = Idle
    /\ IdleCanon /\ IdleBind /\ IdleCsv /\ IdleLst

Call_is_number ==
    /\ pc = "call"
    /\ LET r == is_number(value)
       IN  /\ number' = r.ret
           /\ err' = r.exc
           /\ pc' = IF r.exc = "" THEN "done" ELSE "raised"
    /\ UNCHANGED <<value, canonVars, bindVars, csvVars, lstVars>>

NextNum == Call_is_number

SpecNum == InitNum /\ [][NextNum]_vars

(***************************************************************************)
(* A call of replace_dummies                                               *)
(***************************************************************************)
InitBind ==
    /\ pc = "call" /\ err = ""
    /\ expression \in Expressions(MaxPieces)
    /\ t10 \in BoundValues
    /\ t11 \in BoundValues
    /\ bound = Idle
    /\ IdleCanon /\ IdleNum /\ IdleCsv /\ IdleLst

Call_replace_dummies ==
    /\ pc = "call"
    /\ bound' = replace_dummies(expression, t10, t11)
    /\ pc' = "done"
    /\ UNCHANGED <<expression, t10, t11, err, canonVars, numVars, csvVars, lstVars>>

NextBind == Call_replace_dummies

SpecBind == InitBind /\ [][NextBind]_vars

(***************************************************************************)
(* A call of csv_to_dictionary                                             *)
(***************************************************************************)
InitCsv ==
    /\ pc = "call" /\ err = ""
    /\ csv \in Tables
    /\ rows = <<>> /\ fields = <<>> /\ dictionary = <<>> /\ i = 0
    /\ IdleCanon /\ IdleNum /\ IdleBind /\ IdleLst

\* rows = csv.split('\n'); dictionary = {}; fields = rows.pop(0).split('|')[1:]
Csv_split ==
    /\ pc = "call"
    /\ LET lines == Split(csv, "\n")
       IN  /\ rows' = Tail(lines)
           /\ fields' = Tail(Split(Head(lines), "|"))
    /\ dictionary' = <<>>
    /\ i' = 0
    /\ pc' = "map"
    /\ UNCHANGED <<csv, err, canonVars, numVars, bindVars, lstVars>>

\* map(transform_cwv, rows): the next row
Csv_transform_cwv ==
    /\ pc = "map"
    /\ i < Len(rows)
    /\ LET r == transform_cwv(dictionary, fields, rows[i + 1])
       IN  IF r.exc = ""
           THEN /\ dictionary' = r.ret
                /\ i' = i + 1
                /\ UNCHANGED <<pc, err>>
           ELSE /\ err' = r.exc
                /\ pc' = "raised"
                /\ UNCHANGED <<dictionary, i>>
    /\ UNCHANGED <<csv, rows, fields, canonVars, numVars, bindVars, lstVars>>

\* return dictionary
Csv_return ==
    /\ pc = "map"
    /\ i = Len(rows)
    /\ pc' = "done"
    /\ UNCHANGED <<err, csvVars, canonVars, numVars, bindVars, lstVars>>

NextCsv == Csv_split \/ Csv_transform_cwv \/ Csv_return

SpecCsv == InitCsv /\ [][NextCsv]_vars

(***************************************************************************)
(* main: the model is built, then compute_lst is called                    *)
(***************************************************************************)
InitLst ==
    /\ pc = "call" /\ err = ""
    /\ swlst = Idle /\ temps = Idle /\ lst = Idle
    /\ IdleCanon /\ IdleNum /\ IdleBind /\ IdleCsv

\* split_window_lst = SplitWindowLST(emissivity_b10, emissivity_b11, cwv_subrange)
Main_SplitWindowLST ==
    /\ pc = "call"
    /\ \E m \in ModelInputs : swlst' = SplitWindowLST(m[1][1], m[1][2], m[2])
    /\ pc' = "built"
    /\ UNCHANGED <<temps, lst, err, canonVars, numVars, bindVars, csvVars>>

\* main with the two temperatures passed in the other order
Main_compute_lst_swapped ==
    /\ pc = "built"
    /\ \E ti, tj \in Temperatures :
          LET r == compute_lst(swlst, tj, ti)
          IN  /\ temps' = <<ti, tj>>
              /\ lst' = r.ret
              /\ err' = r.exc
              /\ pc' = IF r.exc = "" THEN "done" ELSE "raised"
    /\ UNCHANGED <<swlst, canonVars, numVars, bindVars, csvVars>>

\* lst = split_window_lst.compute_lst(t10, t11)
Main_compute_lst ==
    /\ pc = "built"
    /\ \E ti, tj \in Temperatures :
          LET r == compute_lst(swlst, ti, tj)
          IN  /\ temps' = <<ti, tj>>
              /\ lst' = r.ret
              /\ err' = r.exc
              /\ pc' = IF r.exc = "" THEN "done" ELSE "raised"
    /\ UNCHANGED <<swlst, canonVars, numVars, bindVars, csvVars>>

NextLst == Main_SplitWindowLST \/ Main_compute_lst

SpecLst == InitLst /\ [][NextLst]_vars

(***************************************************************************)
(* Claims about replace_dot_comma_space                                    *)
(***************************************************************************)
Without(s, chars) == SelectSeq(s, LAMBDA c : c \notin chars)

\* one pass from the left: ", " and every character of underscored give "_",
\* the characters of removed give nothing
RECURSIVE ScanKey(_, _, _)
ScanKey(s, underscored, removed) ==
    IF s = <<>> THEN <<>>
    ELSE IF StartsWith(s, <<",", " ">>)
         THEN <<"_">> \o ScanKey(SubSeq(s, 3, Len(s)), underscored, removed)
         ELSE IF s[1] \in underscored
              THEN <<"_">> \o ScanKey(Tail(s), underscored, removed)
              ELSE IF s[1] \in removed
                   THEN ScanKey(Tail(s), underscored, removed)
                   ELSE <<s[1]>> \o ScanKey(Tail(s), underscored, removed)

KeyPunctuation == {".", ",", " ", "(", ")", "/"}

CanonExamples ==
    /\ string = BarrenLand => canon = Barren_Land
    /\ string = SnowAndIce => canon = Snow_and_ice
    /\ \A n \in 1..Len(canon) : canon[n] \notin KeyPunctuation

\* C6 as stated: the canonical key is the raw key with every period removed and
\* every comma, space, parenthesis and slash turned into an underscore (", "
\* giving one), "Barren Land" gives "Barren_Land", "Snow and ice" gives
\* "Snow_and_ice", and no canonical key holds any of those characters.
C6_AsStated ==
    pc = "done" =>
        /\ canon = ScanKey(Without(string, {"."}), {",", " ", "(", ")", "/"}, {})
        /\ CanonExamples

\* C6 amended: as C6, but parentheses are removed like periods, not turned
\* into underscores.
C6_Canonical ==
    pc = "done" =>
        /\ canon = ScanKey(Without(string, {"."}), {",", " ", "/"}, {"(", ")"})
        /\ CanonExamples

C6_Witness == pc = "done" /\ string = <<"(", ",", " ">> /\ canon = <<"_">>

(***************************************************************************)
(* Claims about is_number                                                  *)
(***************************************************************************)
IsNumeric(v) == float(v) = "" \/ complex(v) = ""

RECURSIVE SinglePass(_, _, _)
SinglePass(s, a, b) ==
    IF s = <<>> THEN <<>>
    ELSE IF StartsWith(s, Input_T10)
         THEN Str(a) \o SinglePass(SubSeq(s, Len(Input_T10) + 1, Len(s)), a, b)
         ELSE IF StartsWith(s, Input_T11)
              THEN Str(b) \o SinglePass(SubSeq(s, Len(Input_T11) + 1, Len(s)), a, b)
              ELSE <<s[1]>> \o SinglePass(Tail(s), a, b)

T11First(s, a, b) ==
    Reduce(<< <<Input_T11, Str(b)>>, <<Input_T10, Str(a)>> >>, s)

\* C2: binding Input_T10 and Input_T11 is a single pass over the original
\* expression, so the result is that of substituting Input_T11 first, and
\* no inserted text is substituted again.
C2_SinglePass ==
    pc = "done" =>
        /\ bound = SinglePass(expression, t10, t11)
        /\ bound = T11First(expression, t10, t11)

\* C7: binding fails with a missing-placeholder error whenever the
\* expression holds a placeholder token with no value bound to it (None),
\* and never returns an expression.
C7_MissingPlaceholder ==
    pc # "call" /\ ( \/ Contains(expression, Input_T10) /\ t10 = PyNone
                     \/ Contains(expression, Input_T11) /\ t11 = PyNone ) =>
        pc = "raised" /\ err = "MissingPlaceholderError"

(***************************************************************************)
(* Claims about csv_to_dictionary                                          *)
(***************************************************************************)
Elements(p) == Split(rows[p], "|")
RawKey(p) == Elements(p)[1]
RowKey(p) == replace_dot_comma_space(RawKey(p))
Started == pc \in {"map", "done", "raised"}

\* the record transform_cwv makes of row p
RecordOf(p) ==
    Cwv(RowKey(p), [n \in 1..NCwv |-> replace_dot_comma_space(fields[n])], Elements(p))

\* the first of the rows mapped so far whose canonical key is k
FirstRow(k) == CHOOSE p \in 1..i : RowKey(p) = k /\ \A q \in 1..(p - 1) : RowKey(q) # k

\* C1: the dictionary holds exactly the canonical keys of the rows mapped so
\* far, and under each key the record of the first row that has it: a later
\* row with the same key changes nothing.
C1_FirstWins ==
    Started =>
        /\ DOMAIN dictionary = {RowKey(p) : p \in 1..i}
        /\ \A k \in DOMAIN dictionary : dictionary[k] = RecordOf(FirstRow(k))

C1_Witness ==
    /\ pc = "done"
    /\ \E p, q \in 1..Len(rows) :
          /\ p < q /\ RowKey(p) = RowKey(q)
          /\ RecordOf(p) # RecordOf(q)
          /\ dictionary[RowKey(q)] = RecordOf(p)

\* C3: a table is built only if every data row has as many values as the
\* header has fields.
C3_MalformedRow ==
    pc = "done" => \A p \in 1..Len(rows) : Len(Elements(p)) - 1 = Len(fields)

\* what the claim C4 expects of a cell: a number when the text is numeric, the
\* unchanged text when it is not
AsWritten(cell, got) ==
    IF IsNumeric(PyStr(cell)) THEN got.type \in {"int", "float", "complex"}
    ELSE got = PyStr(cell)

\* C4: in a table of well-formed rows with unique keys, the record of a key
\* gives, for every header field, the value written in that column of the
\* key's row.
C4_RoundTrip ==
    ( /\ pc = "done"
      /\ \A p \in 1..Len(rows) : Len(Elements(p)) - 1 = Len(fields)
      /\ \A p, q \in 1..Len(rows) : p # q => RowKey(p) # RowKey(q) ) =>
        \A p \in 1..Len(rows) : \A f \in 1..Len(fields) :
            LET got == getattr(dictionary[RowKey(p)], replace_dot_comma_space(fields[f]))
            IN  got.exc = "" /\ AsWritten(Elements(p)[f + 1], got.ret)

\* canonicalization is idempotent on every raw key
CanonIdempotent ==
    \A s \in RawKeys :
        replace_dot_comma_space(replace_dot_comma_space(s)) = replace_dot_comma_space(s)

\* C10: canonicalization is idempotent, so when the raw key of one mapped row
\* is the canonical form of the raw key of another, both rows have the same
\* canonical key, the dictionary holds one record for the two, and they count
\* as duplicates (fewer records than rows).
C10_Idempotent ==
    /\ CanonIdempotent
    /\ Started =>
          \A p, q \in 1..i :
              p # q /\ RawKey(q) = RowKey(p) =>
                  /\ RowKey(q) = RowKey(p)
                  /\ RowKey(p) \in DOMAIN dictionary
                  /\ dictionary[RowKey(q)] = dictionary[RowKey(p)]
                  /\ Cardinality(DOMAIN dictionary) < i

C10_Witness ==
    /\ pc = "done" /\ i = 2
    /\ RawKey(1) = BarrenLand /\ RawKey(2) = Barren_Land
    /\ DOMAIN dictionary = {Barren_Land}
    /\ dictionary[Barren_Land] = RecordOf(1)

(***************************************************************************)
(* Claims about SplitWindowLST                                             *)
(***************************************************************************)
\* the formula with its denominators cleared (checked on the simple pairs, whose
\* products stay within 32 bits):
\* 2e^2 (lst - b0 - b7 (ti-tj)^2)
\*    = (b1 e^2 + b2 (1-e) e + b3 de)(ti+tj) + (b4 e^2 + b5 (1-e) e + b6 de)(ti-tj)
FormulaHolds ==
    LET e == swlst.average_emissivity
        de == swlst.delta_emissivity
        b == swlst.cwv_coefficients
        ee == QMul(e, e)
        ue == QMul(QSub(QInt(1), e), e)
        sum == QAdd(temps[1], temps[2])
        dif == QSub(temps[1], temps[2])
        left == QMul(QMul(QInt(2), ee),
                     QSub(QSub(lst, b.b0), QMul(b.b7, QMul(dif, dif))))
        factor(x, y, z) == QAdd(QMul(x, ee), QAdd(QMul(y, ue), QMul(z, de)))
    IN  left = QAdd(QMul(factor(b.b1, b.b2, b.b3), sum), QMul(factor(b.b4, b.b5, b.b6), dif))

C9_DomainError ==
    /\ pc = "built" => err = "" /\ swlst # Idle
    /\ pc \in {"done", "raised"} /\ (swlst.emissivity_t10.n = 0 \/ swlst.emissivity_t11.n = 0) =>
          pc = "raised" /\ err = "DomainError" /\ lst = PyNone

C9_Witness ==
    /\ pc = "raised" /\ err = "DomainError"
    /\ swlst.emissivity_t10.n = 0 /\ swlst.emissivity_t11.n # 0

====
